---------------------------- MODULE Spec2Model ----------------------------
(***************************************************************************)
(* A model of the artifact version-control engine of devbot-ai:            *)
(* src/lib/db/queries-artifacts.ts (the version store, branch/tag          *)
(* registry, change log and collaborator table), the Drizzle schema in     *)
(* src/unnamed/part_002 and the request layer in                           *)
(* src/artifacts/image/server.ts.                                          *)
(*                                                                         *)
(* Every `await db...` of a query function is one database statement and   *)
(* one step of the model; there is no transaction and no lock in the       *)
(* source, so concurrent requests interleave between statements.           *)
(***************************************************************************)
EXTENDS Integers, Sequences, FiniteSets, TLC

(***************************************************************************)
(* Bounds of the model.                                                    *)
(***************************************************************************)
\* requests started in one behaviour of the version-store specifications
MaxCalls == 3
\* requests started in one behaviour of the request-layer specification
MaxGuardCalls == 3
\* the largest value Date.now() takes
MaxClock == 1
\* createArtifactVersion calls started in one behaviour of CreateRaceSpec
MaxRaceCalls == 2

(***************************************************************************)
(* Input values.                                                           *)
(***************************************************************************)
\* concurrent requests (Next.js route invocations)
Procs == {"p1", "p2"}
\* rows of the Document table
Artifacts == {"a1", "a2"}
\* rows of the User table (session.user.id)
Users == {"u1", "u2"}
\* (title, content) pairs a content producer submits
Drafts == {[title |-> "T1", content |-> "A"], [title |-> "T2", content |-> "B"]}
\* branch and tag names
Names == {"main"}
\* rows of the Chat table
Chats == {"c1"}
\* collaborator permission levels
Permissions == {"read", "write", "admin"}
\* the owner of each document (Document.userId)
Owner == [a \in Artifacts |-> IF a = "a1" THEN "u1" ELSE "u2"]

NoVersion == 0
NoHash == [artifactId |-> "", version |-> 0, content |-> "", timestamp |-> 0]

VARIABLES
    versions,       \* ArtifactVersion table (part_002:56-74): row i has id i
    document,       \* Document table: artifactId -> [title, content]
    changeLog,      \* ArtifactChangeLog table (part_002:137-152), in insertion order
    branches,       \* ArtifactBranch table (part_002:79-91)
    tags,           \* ArtifactTag table (part_002:96-107)
    collaborators,  \* ArtifactCollaborator table (part_002:112-132)
    call,           \* per request: arguments, locals, position, error caught,
                    \* response, and the tables as they were when it started
    now,            \* Date.now() (queries-artifacts.ts:55)
    calls,          \* number of requests started
    chatLinks,      \* ChatArtifact table (part_002:35-51)
    baseContent,    \* mergeContent: argument baseContent
    currentContent, \* mergeContent: argument currentContent
    incomingContent,\* mergeContent: argument incomingContent
    mergeResult,    \* mergeContent: the MergeResult returned
    oldContent,     \* generateDiff / createPatch: argument oldContent (part_002:226)
    newContent,     \* generateDiff / createPatch: argument newContent (part_002:226)
    diffResult,     \* generateDiff: the DiffResult returned (part_002:254-263)
    unifiedDiff,    \* generateUnifiedDiff: the string returned (part_002:308)
    patch,          \* createPatch: the string returned (part_002:377)
    patched,        \* applyPatch(oldContent, patch): the string returned (part_002:409)
    execution,      \* the AgenticExecution of executeMultiStep (execution-engine.ts:44-51)
    engine,         \* executeMultiStep: its position, its stopConditions argument,
                    \* the loop iterations entered and the exit taken
    objects,        \* design-editor store: objects, id -> SceneObject (store.ts:27)
    rootObjects,    \* design-editor store: rootObjects (store.ts:28)
    selectedIds,    \* design-editor store: selectedIds (store.ts:29)
    nextId,         \* the ids nanoid() has returned are 1 .. nextId - 1 (store.ts:49)
    history,        \* design-editor store: history (store.ts:31)
    historyIndex    \* design-editor store: historyIndex (store.ts:32)

\* the arguments and the result of a mergeContent call
mergeVars == <<baseContent, currentContent, incomingContent, mergeResult>>

\* the arguments and the results of the diff and patch functions
diffVars == <<oldContent, newContent, diffResult, unifiedDiff, patch, patched>>

\* the agentic execution engine
engineVars == <<execution, engine>>

\* the scene graph and the selection of the design-editor store
sceneVars == <<objects, rootObjects, selectedIds, nextId>>

\* the undo history of the design-editor store
historyVars == <<history, historyIndex>>

\* the state of the library functions, the execution engine and the editor store
libVars == <<mergeVars, diffVars, engineVars, sceneVars, historyVars>>

\* the database tables and the requests running on them
storeVars == <<versions, document, changeLog, branches, tags, collaborators, call, now,
               calls, chatLinks>>

vars == <<versions, document, changeLog, branches, tags, collaborators, call, now, calls,
          chatLinks, libVars>>

store == <<versions, document, changeLog, branches, tags>>

(***************************************************************************)
(* Pure helpers.                                                           *)
(***************************************************************************)
Max(S) == CHOOSE x \in S : \A y \in S : y <= x

\* ids of the version rows of artifact a
VersionIdsOf(a) == {i \in DOMAIN versions : versions[i].artifactId = a}

\* ids of the rows of artifact a with isActive = true
ActiveIdsOf(a) == {i \in VersionIdsOf(a) : versions[i].isActive}

generateContentHash(content) == <<"sha256", content>>

generateCommitHash(artifactId, version, content) ==
    [artifactId |-> artifactId, version |-> version, content |-> content, timestamp |-> now]

\* a next-version query that omits the artifactId filter
NextVersionWrong(a) ==
    IF DOMAIN versions = {} THEN 1
    ELSE Max({versions[i].version : i \in DOMAIN versions}) + 1

\* select version ... order by version desc limit 1; (latestVersion?.version || 0) + 1
NextVersion(a) ==
    IF VersionIdsOf(a) = {} THEN 1
    ELSE Max({versions[i].version : i \in VersionIdsOf(a)}) + 1

RestoreMessage(n) == "Restored from version " \o ToString(n)

\* the catch of a query function: whatever was thrown inside the try, it throws
\* a new ChatSDKError('bad_request:database', ...)
CatchAndRethrow(error) == [kind |-> "ChatSDKError", code |-> "bad_request:database"]

\* the catch of the POST handler: a ChatSDKError becomes its own response,
\* anything else (ZodError included) the response of 'bad_request:api'
PostResponse(thrown) ==
    IF thrown.kind = "ChatSDKError" THEN thrown.code ELSE "bad_request:api"

Snapshot == [versions |-> versions, document |-> document, changeLog |-> changeLog,
             branches |-> branches, tags |-> tags]

IdleCall ==
    [op |-> "none", pc |-> "idle", artifactId |-> "", title |-> "", content |-> "",
     commitMessage |-> "", user |-> "", versionId |-> NoVersion, name |-> "",
     permission |-> "", target |-> "",
     nextVersion |-> 0, commitHash |-> NoHash, newVersionId |-> NoVersion,
     error |-> "none", result |-> "none", before |-> Snapshot]

Free(p) == call[p].pc \in {"idle", "done"}
AllFree == \A p \in Procs : Free(p)
InFlight(p) == ~Free(p)

\* a request takes the first free slot
MayStart(p) == Free(p) /\ (p = "p2" => InFlight("p1"))

\* no mergeContent call is being looked at
NoMerge ==
    /\ baseContent = <<>>
    /\ currentContent = <<>>
    /\ incomingContent = <<>>
    /\ mergeResult = [pc |-> "none"]

\* the tables right after the migration, two documents saved
StoreInit ==
    /\ versions = <<>>
    /\ document = [a \in Artifacts |-> [title |-> "T1", content |-> ""]]
    /\ changeLog = <<>>
    /\ branches = <<>>
    /\ tags = <<>>
    /\ collaborators = {}
    /\ call = [p \in Procs |-> [IdleCall EXCEPT !.before =
                  [versions |-> <<>>,
                   document |-> [a \in Artifacts |-> [title |-> "T1", content |-> ""]],
                   changeLog |-> <<>>, branches |-> <<>>, tags |-> <<>>]]]
    /\ now = 0
    /\ calls = 0
    /\ chatLinks = {}

\* no diff or patch function has been called
NoDiff ==
    /\ oldContent = <<>>
    /\ newContent = <<>>
    /\ diffResult = [pc |-> "none"]
    /\ unifiedDiff = [pc |-> "none"]
    /\ patch = [pc |-> "none"]
    /\ patched = [pc |-> "none"]

\* no execution has been created
NoEngine ==
    /\ execution = [id |-> "none"]
    /\ engine = [pc |-> "none"]

\* the initial state of the design-editor store
EditorInit ==
    /\ objects = <<>>
    /\ rootObjects = <<>>
    /\ selectedIds = <<>>
    /\ nextId = 1
    /\ history = <<>>
    /\ historyIndex = -1

Init == StoreInit /\ NoMerge /\ NoDiff /\ NoEngine /\ EditorInit

(***************************************************************************)
(* Request layer: POST ?action=create-version / restore-version.           *)
(***************************************************************************)
Begin(p, rec) ==
    /\ call' = [call EXCEPT ![p] = rec]
    /\ calls' = calls + 1
    /\ UNCHANGED <<chatLinks, libVars, versions, document, changeLog, branches, tags, collaborators, now>>

CreateVersionCall(p) ==
    /\ Free(p)
    /\ \E a \in Artifacts, d \in Drafts, u \in Users :
         Begin(p, [IdleCall EXCEPT !.op = "create", !.pc = "selectLatest",
                     !.artifactId = a, !.title = d.title, !.content = d.content,
                     !.commitMessage = "edit", !.user = u, !.before = Snapshot])

RestoreVersionCall(p) ==
    /\ Free(p)
    /\ \E a \in Artifacts, v \in 1..(Len(versions) + 1), u \in Users :
         Begin(p, [IdleCall EXCEPT !.op = "restore", !.pc = "selectTarget",
                     !.artifactId = a, !.versionId = v, !.user = u,
                     !.before = Snapshot])

\* something is thrown inside the try of a query function: err is what was thrown,
\* result what the request's caller receives
Throw(p, err) ==
    call' = [call EXCEPT ![p].pc = "done", ![p].error = err,
                         ![p].result = PostResponse(CatchAndRethrow(err))]

(***************************************************************************)
(* restoreArtifactVersion                                                  *)
(***************************************************************************)
\* a restore that takes the content of the document instead of the target version's
SelectTargetCurrent(p) ==
    /\ call[p].pc = "selectTarget"
    /\ LET v == call[p].versionId
           a == call[p].artifactId
       IN IF v \in DOMAIN versions /\ versions[v].artifactId = a
          THEN call' = [call EXCEPT ![p].pc = "selectLatest",
                                    ![p].title = versions[v].title,
                                    ![p].content = document[a].content,
                                    ![p].commitMessage = RestoreMessage(versions[v].version)]
          ELSE Throw(p, "not_found:database")
    /\ UNCHANGED <<chatLinks, libVars, versions, document, changeLog, branches, tags, collaborators, now, calls>>

\* select * from ArtifactVersion where id = versionId and artifactId = artifactId;
\* throw not_found if there is no row, else call createArtifactVersion
SelectTarget(p) ==
    /\ call[p].pc = "selectTarget"
    /\ LET v == call[p].versionId
           a == call[p].artifactId
       IN IF v \in DOMAIN versions /\ versions[v].artifactId = a
          THEN call' = [call EXCEPT ![p].pc = "selectLatest",
                                    ![p].title = versions[v].title,
                                    ![p].content = versions[v].content,
                                    ![p].commitMessage = RestoreMessage(versions[v].version)]
          ELSE Throw(p, "not_found:database")
    /\ UNCHANGED <<chatLinks, libVars, versions, document, changeLog, branches, tags, collaborators, now, calls>>

(***************************************************************************)
(* createArtifactVersion, one statement per step                           *)
(***************************************************************************)
SelectLatest(p) ==
    /\ call[p].pc = "selectLatest"
    /\ LET nv == NextVersion(call[p].artifactId)
       IN call' = [call EXCEPT ![p].pc = "deactivate",
                               ![p].nextVersion = nv,
                               ![p].commitHash =
                                   generateCommitHash(call[p].artifactId, nv, call[p].content)]
    /\ UNCHANGED <<chatLinks, libVars, versions, document, changeLog, branches, tags, collaborators, now, calls>>

\* a createArtifactVersion that omits the deactivating update
DeactivateNone(p) ==
    /\ call[p].pc = "deactivate"
    /\ call' = [call EXCEPT ![p].pc = "insert"]
    /\ UNCHANGED <<chatLinks, libVars, versions, document, changeLog, branches, tags, collaborators, now, calls>>

\* update ArtifactVersion set isActive = false where artifactId = ... and isActive
Deactivate(p) ==
    /\ call[p].pc = "deactivate"
    /\ versions' = [i \in DOMAIN versions |->
                      IF versions[i].artifactId = call[p].artifactId /\ versions[i].isActive
                      THEN [versions[i] EXCEPT !.isActive = FALSE]
                      ELSE versions[i]]
    /\ call' = [call EXCEPT ![p].pc = "insert"]
    /\ UNCHANGED <<chatLinks, libVars, document, changeLog, branches, tags, collaborators, now, calls>>

NewVersionRow(c) ==
    [artifactId |-> c.artifactId, version |-> c.nextVersion, commitHash |-> c.commitHash,
     parentVersionId |-> NoVersion, title |-> c.title, content |-> c.content,
     contentHash |-> generateContentHash(c.content), commitMessage |-> c.commitMessage,
     authorId |-> c.user, isActive |-> TRUE]

\* an insert into a table whose commitHash column is not declared unique
InsertVersionNoUnique(p) ==
    /\ call[p].pc = "insert"
    /\ IF FALSE
       THEN /\ Throw(p, "unique_violation")
            /\ UNCHANGED versions
       ELSE /\ versions' = Append(versions, NewVersionRow(call[p]))
            /\ call' = [call EXCEPT ![p].pc = "updateDocument",
                                    ![p].newVersionId = Len(versions) + 1]
    /\ UNCHANGED <<chatLinks, libVars, document, changeLog, branches, tags, collaborators, now, calls>>

\* insert into ArtifactVersion ... returning; commitHash is unique (part_002:62)
InsertVersion(p) ==
    /\ call[p].pc = "insert"
    /\ IF \E i \in DOMAIN versions : versions[i].commitHash = call[p].commitHash
       THEN /\ Throw(p, "unique_violation")
            /\ UNCHANGED versions
       ELSE /\ versions' = Append(versions, NewVersionRow(call[p]))
            /\ call' = [call EXCEPT ![p].pc = "updateDocument",
                                    ![p].newVersionId = Len(versions) + 1]
    /\ UNCHANGED <<chatLinks, libVars, document, changeLog, branches, tags, collaborators, now, calls>>

\* an update that also rewrites the title and content of the artifact's version rows
UpdateDocumentAndVersions(p) ==
    /\ call[p].pc = "updateDocument"
    /\ document' = [document EXCEPT ![call[p].artifactId] =
                      [title |-> call[p].title, content |-> call[p].content]]
    /\ versions' = [i \in DOMAIN versions |->
                      IF versions[i].artifactId = call[p].artifactId
                      THEN [versions[i] EXCEPT !.title = call[p].title,
                                               !.content = call[p].content]
                      ELSE versions[i]]
    /\ call' = [call EXCEPT ![p].pc = "log"]
    /\ UNCHANGED <<chatLinks, libVars, changeLog, branches, tags, collaborators, now, calls>>

\* update Document set title, content where id = artifactId
UpdateDocument(p) ==
    /\ call[p].pc = "updateDocument"
    /\ document' = [document EXCEPT ![call[p].artifactId] =
                      [title |-> call[p].title, content |-> call[p].content]]
    /\ call' = [call EXCEPT ![p].pc = "log"]
    /\ UNCHANGED <<chatLinks, libVars, versions, changeLog, branches, tags, collaborators, now, calls>>

\* a log write that keeps only the latest entry
logArtifactChangeReplace(artifactId, versionId, action, userId, details) ==
    changeLog' = <<[artifactId |-> artifactId, versionId |-> versionId, action |-> action,
                    userId |-> userId, details |-> details]>>

\* insert into ArtifactChangeLog
logArtifactChange(artifactId, versionId, action, userId, details) ==
    changeLog' = Append(changeLog,
        [artifactId |-> artifactId, versionId |-> versionId, action |-> action,
         userId |-> userId, details |-> details])

\* a log call that passes the version number where the version id belongs
LogChangeNumberAsId(p) ==
    /\ call[p].pc = "log"
    /\ logArtifactChange(call[p].artifactId, call[p].nextVersion, "update", call[p].user,
                         [commitMessage |-> call[p].commitMessage,
                          version |-> call[p].nextVersion])
    /\ call' = [call EXCEPT ![p].pc = "done", ![p].result = "ok"]
    /\ UNCHANGED <<chatLinks, libVars, versions, document, branches, tags, collaborators, now, calls>>

\* logArtifactChange({artifactId, versionId: newVersion.id, action: 'update', ...}); return
LogChange(p) ==
    /\ call[p].pc = "log"
    /\ logArtifactChange(call[p].artifactId, call[p].newVersionId, "update", call[p].user,
                         [commitMessage |-> call[p].commitMessage,
                          version |-> call[p].nextVersion])
    /\ call' = [call EXCEPT ![p].pc = "done", ![p].result = "ok"]
    /\ UNCHANGED <<chatLinks, libVars, versions, document, branches, tags, collaborators, now, calls>>

\* Date.now() advances
Tick ==
    /\ now < MaxClock
    /\ now' = now + 1
    /\ UNCHANGED <<chatLinks, libVars, versions, document, changeLog, branches, tags, collaborators, call, calls>>

Step(p) ==
    \/ SelectTarget(p)
    \/ SelectLatest(p)
    \/ Deactivate(p)
    \/ InsertVersion(p)
    \/ UpdateDocument(p)
    \/ LogChange(p)

(***************************************************************************)
(* Spec: concurrent requests, interleaved between database statements.     *)
(***************************************************************************)
Next ==
    \/ \E p \in Procs : /\ MayStart(p)
                        /\ calls < MaxCalls
                        /\ (CreateVersionCall(p) \/ RestoreVersionCall(p))
    \/ \E p \in Procs : Step(p)
    \/ Tick

Spec == Init /\ [][Next]_vars

(***************************************************************************)
(* SeqSpec: sequential use, each call completes before the next starts.    *)
(***************************************************************************)
SeqNext ==
    \/ /\ AllFree
       /\ calls < MaxCalls
       /\ (CreateVersionCall("p1") \/ RestoreVersionCall("p1"))
    \/ Step("p1")
    \/ Tick

SeqSpec == Init /\ [][SeqNext]_vars


(***************************************************************************)
(* CreateRaceSpec: createArtifactVersion calls only, running concurrently  *)
(* and interleaved between their statements.                               *)
(***************************************************************************)
CreateStep(p) ==
    \/ SelectLatest(p)
    \/ Deactivate(p)
    \/ InsertVersion(p)
    \/ UpdateDocument(p)
    \/ LogChange(p)

CreateRaceNext ==
    \/ \E p \in Procs : /\ MayStart(p)
                        /\ calls < MaxRaceCalls
                        /\ CreateVersionCall(p)
    \/ \E p \in Procs : CreateStep(p)
    \/ Tick

CreateRaceSpec == Init /\ [][CreateRaceNext]_vars

(***************************************************************************)
(* A database statement of an in-flight call throws (connection lost,      *)
(* statement timeout): control passes to the catch of the query function.  *)
(***************************************************************************)
Fault(p) ==
    /\ call[p].pc \in {"selectTarget", "selectLatest", "deactivate", "insert",
                       "updateDocument", "log"}
    /\ Throw(p, "db_error")
    /\ UNCHANGED <<chatLinks, libVars, versions, document, changeLog, branches, tags, collaborators, now, calls>>

(***************************************************************************)
(* FaultSpec: sequential use in which any statement may throw.             *)
(***************************************************************************)
FaultNext ==
    \/ /\ AllFree
       /\ calls < MaxCalls
       /\ (CreateVersionCall("p1") \/ RestoreVersionCall("p1"))
    \/ Step("p1")
    \/ Fault("p1")
    \/ Tick

FaultSpec == Init /\ [][FaultNext]_vars

(***************************************************************************)
(* Request layer: POST /[id]?action=create-branch / create-tag /           *)
(* add-collaborator, and the query functions they delegate to.             *)
(***************************************************************************)
CreateBranchCall(p) ==
    /\ Free(p)
    /\ \E a \in Artifacts, n \in Names, v \in 1..(Len(versions) + 1), u \in Users :
         Begin(p, [IdleCall EXCEPT !.op = "branch", !.pc = "insertBranch",
                     !.artifactId = a, !.name = n, !.versionId = v, !.user = u,
                     !.before = Snapshot])

CreateTagCall(p) ==
    /\ Free(p)
    /\ \E a \in Artifacts, n \in Names, v \in 1..(Len(versions) + 1), u \in Users :
         Begin(p, [IdleCall EXCEPT !.op = "tag", !.pc = "insertTag",
                     !.artifactId = a, !.name = n, !.versionId = v, !.user = u,
                     !.before = Snapshot])

AddCollaboratorCall(p) ==
    /\ Free(p)
    /\ \E a \in Artifacts, t \in Users, perm \in Permissions, u \in Users :
         Begin(p, [IdleCall EXCEPT !.op = "collaborator", !.pc = "insertCollaborator",
                     !.artifactId = a, !.target = t, !.permission = perm, !.user = u,
                     !.before = Snapshot])

\* createArtifactBranch: one insert; headVersionId references ArtifactVersion.id
InsertBranch(p) ==
    /\ call[p].pc = "insertBranch"
    /\ IF call[p].versionId \in DOMAIN versions
       THEN /\ branches' = Append(branches,
                   [artifactId |-> call[p].artifactId, name |-> call[p].name,
                    headVersionId |-> call[p].versionId, isDefault |-> FALSE])
            /\ call' = [call EXCEPT ![p].pc = "done", ![p].result = "ok"]
       ELSE /\ Throw(p, "fk_violation")
            /\ UNCHANGED branches
    /\ UNCHANGED <<chatLinks, libVars, versions, document, changeLog, tags, collaborators, now, calls>>

\* createArtifactTag: one insert; versionId references ArtifactVersion.id
InsertTag(p) ==
    /\ call[p].pc = "insertTag"
    /\ IF call[p].versionId \in DOMAIN versions
       THEN /\ tags' = Append(tags,
                   [artifactId |-> call[p].artifactId, versionId |-> call[p].versionId,
                    name |-> call[p].name])
            /\ call' = [call EXCEPT ![p].pc = "done", ![p].result = "ok"]
       ELSE /\ Throw(p, "fk_violation")
            /\ UNCHANGED tags
    /\ UNCHANGED <<chatLinks, libVars, versions, document, changeLog, branches, collaborators, now, calls>>

\* addArtifactCollaborator: one insert; primary key (artifactId, userId)
InsertCollaborator(p) ==
    /\ call[p].pc = "insertCollaborator"
    /\ IF \E c \in collaborators :
            c.artifactId = call[p].artifactId /\ c.userId = call[p].target
       THEN /\ Throw(p, "unique_violation")
            /\ UNCHANGED collaborators
       ELSE /\ collaborators' = collaborators \cup
                   {[artifactId |-> call[p].artifactId, userId |-> call[p].target,
                     permission |-> call[p].permission, invitedBy |-> call[p].user]}
            /\ call' = [call EXCEPT ![p].pc = "done", ![p].result = "ok"]
    /\ UNCHANGED <<chatLinks, libVars, versions, document, changeLog, branches, tags, now, calls>>

(***************************************************************************)
(* Request layer: POST ?action=link-to-chat: linkArtifactToChat, then      *)
(* logArtifactChange with action 'create'.                                 *)
(***************************************************************************)
LinkToChatCall(p) ==
    /\ Free(p)
    /\ \E a \in Artifacts, c \in Chats, u \in Users :
         Begin(p, [IdleCall EXCEPT !.op = "link", !.pc = "insertLink",
                     !.artifactId = a, !.target = c, !.user = u,
                     !.before = Snapshot])

\* linkArtifactToChat: one insert; primary key (chatId, artifactId)
InsertLink(p) ==
    /\ call[p].pc = "insertLink"
    /\ IF \E l \in chatLinks : l.chatId = call[p].target /\ l.artifactId = call[p].artifactId
       THEN /\ Throw(p, "unique_violation")
            /\ UNCHANGED chatLinks
       ELSE /\ chatLinks' = chatLinks \cup
                   {[chatId |-> call[p].target, artifactId |-> call[p].artifactId]}
            /\ call' = [call EXCEPT ![p].pc = "logLink"]
    /\ UNCHANGED <<libVars, versions, document, changeLog, branches, tags, collaborators,
                   now, calls>>

LogLink(p) ==
    /\ call[p].pc = "logLink"
    /\ logArtifactChange(call[p].artifactId, NoVersion, "create", call[p].user,
                         [chatId |-> call[p].target])
    /\ call' = [call EXCEPT ![p].pc = "done", ![p].result = "ok"]
    /\ UNCHANGED <<chatLinks, libVars, versions, document, branches, tags, collaborators,
                   now, calls>>

(***************************************************************************)
(* GuardSpec: sequential requests of every write endpoint.                 *)
(***************************************************************************)
GuardNext ==
    \/ /\ AllFree
       /\ calls < MaxGuardCalls
       /\ \/ CreateVersionCall("p1")
          \/ RestoreVersionCall("p1")
          \/ CreateBranchCall("p1")
          \/ CreateTagCall("p1")
          \/ AddCollaboratorCall("p1")
          \/ LinkToChatCall("p1")
    \/ Step("p1")
    \/ InsertBranch("p1")
    \/ InsertTag("p1")
    \/ InsertCollaborator("p1")
    \/ InsertLink("p1")
    \/ LogLink("p1")

GuardSpec == Init /\ [][GuardNext]_vars


(***************************************************************************)
(* mergeContent (src/unnamed/part_002:314-371).  A content string is a     *)
(* sequence of characters; "\n" is the line separator.                     *)
(***************************************************************************)
\* lines per content string drawn as input
MaxLines == 2

NL == "\n"
\* the characters of input lines
LineChars == {"x", "y", "z"}
\* input lines: the empty line and the one-character lines
InputLines == {<<>>} \cup {<<c>> : c \in LineChars}

\* the value of lines[i] for i past the end of the array
Undefined == <<"undefined">>

\* String.prototype.split('\n')
RECURSIVE Split(_)
Split(str) ==
    IF \E k \in 1..Len(str) : str[k] = NL
    THEN LET k == CHOOSE k \in 1..Len(str) :
                     str[k] = NL /\ \A j \in 1..(k - 1) : str[j] # NL
         IN <<SubSeq(str, 1, k - 1)>> \o Split(SubSeq(str, k + 1, Len(str)))
    ELSE <<str>>

\* Array.prototype.join('\n')
RECURSIVE Join(_)
Join(lines) ==
    IF Len(lines) = 0 THEN <<>>
    ELSE IF Len(lines) = 1 THEN lines[1]
    ELSE lines[1] \o <<NL>> \o Join(Tail(lines))

\* the content strings of at most MaxLines input lines
Contents == {Join(ls) : ls \in UNION {[1..n -> InputLines] : n \in 1..MaxLines}}

\* lines[i], i counted from 0
LineAt(lines, i) == IF i < Len(lines) THEN lines[i + 1] ELSE Undefined

\* line || ''
OrEmpty(line) == IF line = Undefined \/ line = <<>> THEN <<>> ELSE line

Max3(a, b, c) == IF a >= b /\ a >= c THEN a ELSE IF b >= c THEN b ELSE c

ConflictBlock(currentLine, incomingLine) ==
    << <<"<<<<<<< current">>, OrEmpty(currentLine), <<"=======">>,
       OrEmpty(incomingLine), <<">>>>>>> incoming">> >>

\* a loop body that keeps the current line where only the incoming side changed
MergeLineKeepCurrent(i, baseLine, currentLine, incomingLine) ==
    IF currentLine = incomingLine
    THEN [lines |-> <<OrEmpty(currentLine)>>, conflicts |-> <<>>]
    ELSE IF currentLine = baseLine /\ incomingLine # baseLine
    THEN [lines |-> <<OrEmpty(currentLine)>>, conflicts |-> <<>>]
    ELSE IF incomingLine = baseLine /\ currentLine # baseLine
    THEN [lines |-> <<OrEmpty(currentLine)>>, conflicts |-> <<>>]
    ELSE [lines |-> ConflictBlock(currentLine, incomingLine),
          conflicts |-> <<[line |-> i + 1, current |-> OrEmpty(currentLine),
                           incoming |-> OrEmpty(incomingLine), base |-> baseLine]>>]

\* a loop body that records the 0-based index as the conflict's line
MergeLineZeroBased(i, baseLine, currentLine, incomingLine) ==
    IF currentLine = incomingLine
    THEN [lines |-> <<OrEmpty(currentLine)>>, conflicts |-> <<>>]
    ELSE IF currentLine = baseLine /\ incomingLine # baseLine
    THEN [lines |-> <<OrEmpty(incomingLine)>>, conflicts |-> <<>>]
    ELSE IF incomingLine = baseLine /\ currentLine # baseLine
    THEN [lines |-> <<OrEmpty(currentLine)>>, conflicts |-> <<>>]
    ELSE [lines |-> ConflictBlock(currentLine, incomingLine),
          conflicts |-> <<[line |-> i, current |-> OrEmpty(currentLine),
                           incoming |-> OrEmpty(incomingLine), base |-> baseLine]>>]

\* the body of the for loop: what iteration i pushes on mergedLines and on conflicts
MergeLine(i, baseLine, currentLine, incomingLine) ==
    IF currentLine = incomingLine
    THEN [lines |-> <<OrEmpty(currentLine)>>, conflicts |-> <<>>]
    ELSE IF currentLine = baseLine /\ incomingLine # baseLine
    THEN [lines |-> <<OrEmpty(incomingLine)>>, conflicts |-> <<>>]
    ELSE IF incomingLine = baseLine /\ currentLine # baseLine
    THEN [lines |-> <<OrEmpty(currentLine)>>, conflicts |-> <<>>]
    ELSE [lines |-> ConflictBlock(currentLine, incomingLine),
          conflicts |-> <<[line |-> i + 1, current |-> OrEmpty(currentLine),
                           incoming |-> OrEmpty(incomingLine), base |-> baseLine]>>]

\* for (let i = 0; i < maxLines; i++): iterations i .. maxLines - 1
RECURSIVE MergeFrom(_, _, _, _, _)
MergeFrom(i, maxLines, baseLines, currentLines, incomingLines) ==
    IF i >= maxLines THEN [lines |-> <<>>, conflicts |-> <<>>]
    ELSE LET this == MergeLine(i, LineAt(baseLines, i), LineAt(currentLines, i),
                               LineAt(incomingLines, i))
             rest == MergeFrom(i + 1, maxLines, baseLines, currentLines, incomingLines)
         IN [lines |-> this.lines \o rest.lines,
             conflicts |-> this.conflicts \o rest.conflicts]

\* the MergeResult; conflicts: undefined is the empty sequence
mergeContent(base, current, incoming) ==
    LET baseLines == Split(base)
        currentLines == Split(current)
        incomingLines == Split(incoming)
        maxLines == Max3(Len(baseLines), Len(currentLines), Len(incomingLines))
        merged == MergeFrom(0, maxLines, baseLines, currentLines, incomingLines)
    IN [pc |-> "done",
        success |-> Len(merged.conflicts) = 0,
        content |-> Join(merged.lines),
        conflicts |-> merged.conflicts]

(***************************************************************************)
(* MergeSpec: mergeContent applied to every triple of input contents.      *)
(***************************************************************************)
MergeInit ==
    /\ StoreInit
    /\ baseContent \in Contents
    /\ currentContent \in Contents
    /\ incomingContent \in Contents
    /\ mergeResult = [pc |-> "none"]
    /\ NoDiff
    /\ NoEngine
    /\ EditorInit

Merge ==
    /\ mergeResult.pc = "none"
    /\ mergeResult' = mergeContent(baseContent, currentContent, incomingContent)
    /\ UNCHANGED <<storeVars, diffVars, engineVars, sceneVars, historyVars, baseContent,
                   currentContent, incomingContent>>

MergeNext == Merge

MergeSpec == MergeInit /\ [][MergeNext]_vars

(***************************************************************************)
(* generateDiff, generateUnifiedDiff, createPatch and applyPatch           *)
(* (src/unnamed/part_002:226-309, 376-410).                                *)
(***************************************************************************)
\* the body of the for loop of generateDiff: what iteration i pushes
DiffLine(i, oldLine, newLine) ==
    IF oldLine = Undefined /\ newLine # Undefined
    THEN [additions |-> <<newLine>>, deletions |-> <<>>, modifications |-> <<>>]
    ELSE IF oldLine # Undefined /\ newLine = Undefined
    THEN [additions |-> <<>>, deletions |-> <<oldLine>>, modifications |-> <<>>]
    ELSE IF oldLine # newLine
    THEN [additions |-> <<>>, deletions |-> <<>>,
          modifications |-> <<[line |-> i + 1, old |-> oldLine, new |-> newLine]>>]
    ELSE [additions |-> <<>>, deletions |-> <<>>, modifications |-> <<>>]

\* for (let i = 0; i < maxLines; i++): iterations i .. maxLines - 1
RECURSIVE DiffFrom(_, _, _, _)
DiffFrom(i, maxLines, oldLines, newLines) ==
    IF i >= maxLines
    THEN [additions |-> <<>>, deletions |-> <<>>, modifications |-> <<>>]
    ELSE LET this == DiffLine(i, LineAt(oldLines, i), LineAt(newLines, i))
             rest == DiffFrom(i + 1, maxLines, oldLines, newLines)
         IN [additions |-> this.additions \o rest.additions,
             deletions |-> this.deletions \o rest.deletions,
             modifications |-> this.modifications \o rest.modifications]

generateDiff(old, new) ==
    LET oldLines == Split(old)
        newLines == Split(new)
        maxLines == Max({Len(oldLines), Len(newLines)})
        d == DiffFrom(0, maxLines, oldLines, newLines)
    IN [pc |-> "done",
        additions |-> d.additions,
        deletions |-> d.deletions,
        modifications |-> d.modifications,
        stats |-> [addedLines |-> Len(d.additions),
                   deletedLines |-> Len(d.deletions),
                   modifiedLines |-> Len(d.modifications)]]

\* the default labels 'a/file' and 'b/file'
OldLabel == <<"a", "/", "f", "i", "l", "e">>
NewLabel == <<"b", "/", "f", "i", "l", "e">>

\* `@@ -${oldStart},${oldCount} +${newStart},${newCount} @@`
HunkHeader(oldStart, oldCount, newStart, newCount) ==
    <<"@", "@", " ", "-", ToString(oldStart), ",", ToString(oldCount), " ",
      "+", ToString(newStart), ",", ToString(newCount), " ", "@", "@">>

\* for (const mod of diff.modifications)
RECURSIVE ModificationHunks(_, _, _, _, _)
ModificationHunks(mods, oldLineNum, newLineNum, oldLines, newLines) ==
    IF mods = <<>> THEN <<>>
    ELSE << HunkHeader(oldLineNum, 1, newLineNum, 1),
            <<"-">> \o LineAt(oldLines, Head(mods).line - 1),
            <<"+">> \o LineAt(newLines, Head(mods).line - 1) >>
         \o ModificationHunks(Tail(mods), oldLineNum + 1, newLineNum + 1,
                              oldLines, newLines)

\* for (const addition of diff.additions)
RECURSIVE AdditionHunks(_, _)
AdditionHunks(additions, newLineNum) ==
    IF additions = <<>> THEN <<>>
    ELSE << HunkHeader(0, 0, newLineNum, 1), <<"+">> \o Head(additions) >>
         \o AdditionHunks(Tail(additions), newLineNum + 1)

\* for (const deletion of diff.deletions)
RECURSIVE DeletionHunks(_, _)
DeletionHunks(deletions, oldLineNum) ==
    IF deletions = <<>> THEN <<>>
    ELSE << HunkHeader(oldLineNum, 1, 0, 0), <<"-">> \o Head(deletions) >>
         \o DeletionHunks(Tail(deletions), oldLineNum + 1)

generateUnifiedDiff(old, new, oldLabel, newLabel) ==
    LET diff == generateDiff(old, new)
        oldLines == Split(old)
        newLines == Split(new)
        \* oldLineNum and newLineNum after the loop over the modifications
        lineNum == 1 + Len(diff.modifications)
    IN Join(<< <<"-", "-", "-", " ">> \o oldLabel, <<"+", "+", "+", " ">> \o newLabel >>
            \o ModificationHunks(diff.modifications, 1, 1, oldLines, newLines)
            \o AdditionHunks(diff.additions, lineNum)
            \o DeletionHunks(diff.deletions, lineNum))

createPatch(old, new) == generateUnifiedDiff(old, new, OldLabel, NewLabel)

\* patchLine.startsWith(c), c a single character
StartsWith(line, c) == Len(line) >= 1 /\ line[1] = c

\* lines.indexOf(line, from): a 0-based index, -1 when there is none
IndexOf(lines, line, from) ==
    IF \E k \in (from + 1)..Len(lines) : lines[k] = line
    THEN (CHOOSE k \in (from + 1)..Len(lines) :
              lines[k] = line /\ \A j \in (from + 1)..(k - 1) : lines[j] # line) - 1
    ELSE -1

\* lines.splice(index, 1)
SpliceOut(lines, index) ==
    SubSeq(lines, 1, index) \o SubSeq(lines, index + 2, Len(lines))

\* lines.splice(index, 0, line): an index past the end appends
SpliceIn(lines, index, line) ==
    LET at == IF index > Len(lines) THEN Len(lines) ELSE index
    IN SubSeq(lines, 1, at) \o <<line>> \o SubSeq(lines, at + 1, Len(lines))

\* the body of the for loop of applyPatch on one patch line
ApplyPatchLine(st, patchLine) ==
    IF StartsWith(patchLine, "-")
    THEN LET index == IndexOf(st.lines, Tail(patchLine), st.currentLine)
         IN IF index # -1
            THEN [lines |-> SpliceOut(st.lines, index), currentLine |-> st.currentLine]
            ELSE st
    ELSE IF StartsWith(patchLine, "+")
    THEN [lines |-> SpliceIn(st.lines, st.currentLine, Tail(patchLine)),
          currentLine |-> st.currentLine + 1]
    ELSE IF ~StartsWith(patchLine, "@")
    THEN [lines |-> st.lines, currentLine |-> st.currentLine + 1]
    ELSE st

\* for (const patchLine of patchLines)
RECURSIVE ApplyPatchLines(_, _)
ApplyPatchLines(st, patchLines) ==
    IF patchLines = <<>> THEN st
    ELSE ApplyPatchLines(ApplyPatchLine(st, Head(patchLines)), Tail(patchLines))

applyPatch(content, patchText) ==
    Join(ApplyPatchLines([lines |-> Split(content), currentLine |-> 0],
                         Split(patchText)).lines)

(***************************************************************************)
(* DiffSpec: the diff and patch functions applied to every pair of input   *)
(* contents.                                                               *)
(***************************************************************************)
DiffInit ==
    /\ StoreInit
    /\ NoMerge
    /\ NoEngine
    /\ EditorInit
    /\ oldContent \in Contents
    /\ newContent \in Contents
    /\ diffResult = [pc |-> "none"]
    /\ unifiedDiff = [pc |-> "none"]
    /\ patch = [pc |-> "none"]
    /\ patched = [pc |-> "none"]

GenerateDiff ==
    /\ diffResult.pc = "none"
    /\ diffResult' = generateDiff(oldContent, newContent)
    /\ UNCHANGED <<storeVars, mergeVars, engineVars, sceneVars, historyVars,
                   oldContent, newContent, unifiedDiff, patch, patched>>

GenerateUnifiedDiff ==
    /\ unifiedDiff.pc = "none"
    /\ unifiedDiff' = [pc |-> "done",
                       text |-> generateUnifiedDiff(oldContent, newContent,
                                                    OldLabel, NewLabel)]
    /\ UNCHANGED <<storeVars, mergeVars, engineVars, sceneVars, historyVars,
                   oldContent, newContent, diffResult, patch, patched>>

CreatePatch ==
    /\ patch.pc = "none"
    /\ patch' = [pc |-> "done", text |-> createPatch(oldContent, newContent)]
    /\ UNCHANGED <<storeVars, mergeVars, engineVars, sceneVars, historyVars,
                   oldContent, newContent, diffResult, unifiedDiff, patched>>

ApplyPatch ==
    /\ patch.pc = "done"
    /\ patched.pc = "none"
    /\ patched' = [pc |-> "done", content |-> applyPatch(oldContent, patch.text)]
    /\ UNCHANGED <<storeVars, mergeVars, engineVars, sceneVars, historyVars,
                   oldContent, newContent, diffResult, unifiedDiff, patch>>

DiffNext == GenerateDiff \/ GenerateUnifiedDiff \/ CreatePatch \/ ApplyPatch

DiffSpec == DiffInit /\ [][DiffNext]_vars

(***************************************************************************)
(* The agentic execution engine (src/lib/ai/agents/execution-engine.ts):   *)
(* createExecution, executeStep and executeMultiStep.  An agent step is an *)
(* awaited model call that returns or throws; what it returns is an input. *)
(***************************************************************************)
\* the largest options.maxIterations a caller passes
MaxIterationsOption == 2

\* options.maxIterations || 5
DefaultMaxIterations == 5
\* options.qualityThreshold || 7
DefaultQualityThreshold == 7

\* an option, a content or a metrics object that is undefined
NoOption == 0
NoContent == "undefined"
NoMetrics == [overall |-> -1]

\* options.maxIterations, options.qualityThreshold, options.initialContent
IterationOptions == 0..MaxIterationsOption
ThresholdOptions == {NoOption, 8}
InitialContents == {NoContent, "", "doc"}
\* the text a generate or improve call returns
GeneratedTexts == {"", "v1", "v2"}
\* qualityMetrics.overall an evaluate call returns
Scores == {5, 9}

\* the stop conditions the handlers pass (enhanced-handlers.ts:65-83, 223-240)
StopConditionChoices ==
    {[type |-> "quality_threshold", value |-> 8]}
        \cup {[type |-> "max_iterations", value |-> v] : v \in 1..MaxIterationsOption}

\* a string in a condition: '' and undefined are false
Truthy(content) == content # "" /\ content # NoContent

createExecution(options) ==
    [id |-> "e1",
     steps |-> <<>>,
     currentStep |-> 0,
     context |->
        [currentContent |->
            IF Truthy(options.initialContent) THEN options.initialContent ELSE "",
         previousVersions |-> <<>>,
         qualityThreshold |->
            IF options.qualityThreshold # NoOption THEN options.qualityThreshold
            ELSE DefaultQualityThreshold,
         maxIterations |->
            IF options.maxIterations # NoOption THEN options.maxIterations
            ELSE DefaultMaxIterations,
         currentIteration |-> 0],
     isComplete |-> FALSE,
     finalContent |-> "",
     qualityMetrics |-> NoMetrics]

\* what the awaited model call of a step does: it throws, or returns a text
\* (generate, improve) or quality metrics (evaluate)
AgentOutcomes(stepType) ==
    {[throws |-> TRUE, text |-> NoContent, overall |-> -1]}
        \cup (IF stepType = "evaluate"
              THEN {[throws |-> FALSE, text |-> NoContent, overall |-> o] : o \in Scores}
              ELSE {[throws |-> FALSE, text |-> t, overall |-> -1] : t \in GeneratedTexts})

\* the AgentResponse of executeStep: of executeGenerateStep, executeImproveStep,
\* executeEvaluateStep, or of the catch block
StepResult(stepType, outcome) ==
    IF outcome.throws
    THEN [success |-> FALSE, content |-> NoContent, qualityMetrics |-> NoMetrics]
    ELSE IF stepType = "evaluate"
    THEN [success |-> TRUE, content |-> NoContent,
          qualityMetrics |-> [overall |-> outcome.overall]]
    ELSE [success |-> TRUE, content |-> outcome.text, qualityMetrics |-> NoMetrics]

\* the execution after executeStep(executionId, agent, stepType, input)
executeStep(exec, stepType, outcome) ==
    LET result == StepResult(stepType, outcome)
        step == [type |-> stepType, output |-> result, success |-> result.success]
        updateContent == Truthy(result.content) /\ stepType = "generate"
    IN IF outcome.throws
       THEN [exec EXCEPT !.steps = Append(@, step)]
       ELSE [exec EXCEPT
                !.context.previousVersions =
                    IF updateContent THEN Append(@, exec.context.currentContent) ELSE @,
                !.context.currentContent = IF updateContent THEN result.content ELSE @,
                !.qualityMetrics =
                    IF result.qualityMetrics # NoMetrics THEN result.qualityMetrics ELSE @,
                !.steps = Append(@, step),
                !.currentStep = Len(exec.steps)]

\* condition.check(execution) of the handlers' stop conditions
Check(condition, exec) ==
    IF condition.type = "quality_threshold"
    THEN exec.qualityMetrics # NoMetrics /\ exec.qualityMetrics.overall >= condition.value
    ELSE exec.context.currentIteration >= condition.value

shouldStop(exec, stopConditions) ==
    \E condition \in stopConditions : Check(condition, exec)

\* a loop test that lets one more iteration run
WhileGuardInclusive(exec) ==
    ~exec.isComplete /\ exec.context.currentIteration <= exec.context.maxIterations

\* while (!execution.isComplete && currentIteration < maxIterations)
WhileGuard(exec) ==
    ~exec.isComplete /\ exec.context.currentIteration < exec.context.maxIterations

\* completion that leaves finalContent as it was
CompleteKeepFinal(exec) == [exec EXCEPT !.isComplete = TRUE]

\* execution.isComplete = true; execution.finalContent = context.currentContent
Complete(exec) ==
    [exec EXCEPT !.isComplete = TRUE, !.finalContent = exec.context.currentContent]

EngineInit ==
    /\ StoreInit
    /\ NoMerge
    /\ NoDiff
    /\ EditorInit
    /\ \E m \in IterationOptions, q \in ThresholdOptions, c \in InitialContents :
          execution = createExecution([maxIterations |-> m, qualityThreshold |-> q,
                                       initialContent |-> c])
    /\ \E conditions \in SUBSET StopConditionChoices :
          engine = [pc |-> "while", stopConditions |-> conditions,
                    iterations |-> 0, exit |-> "none"]

\* the loop test fails: return execution
WhileExit ==
    /\ engine.pc = "while"
    /\ ~WhileGuard(execution)
    /\ engine' = [engine EXCEPT !.pc = "returned", !.exit = "exhausted"]
    /\ UNCHANGED <<storeVars, mergeVars, diffVars, sceneVars, historyVars, execution>>

\* a stop condition holds at the start of the iteration: complete and break
StopBreak ==
    /\ engine.pc = "while"
    /\ WhileGuard(execution)
    /\ shouldStop(execution, engine.stopConditions)
    /\ execution' = Complete(execution)
    /\ engine' = [engine EXCEPT !.pc = "returned", !.exit = "stop",
                                !.iterations = @ + 1]
    /\ UNCHANGED <<storeVars, mergeVars, diffVars, sceneVars, historyVars>>

\* no stop condition holds: currentIteration++ and call the worker
StartIteration ==
    /\ engine.pc = "while"
    /\ WhileGuard(execution)
    /\ ~shouldStop(execution, engine.stopConditions)
    /\ execution' = [execution EXCEPT !.context.currentIteration = @ + 1]
    /\ engine' = [engine EXCEPT !.pc = "worker", !.iterations = @ + 1]
    /\ UNCHANGED <<storeVars, mergeVars, diffVars, sceneVars, historyVars>>

\* Step 1: the worker's generate or improve step; continue when it fails
WorkerStep ==
    /\ engine.pc = "worker"
    /\ LET stepType == IF execution.context.currentIteration = 1
                       THEN "generate" ELSE "improve"
       IN \E outcome \in AgentOutcomes(stepType) :
             /\ execution' = executeStep(execution, stepType, outcome)
             /\ engine' = [engine EXCEPT
                              !.pc = IF StepResult(stepType, outcome).success
                                     THEN "evaluator" ELSE "while"]
    /\ UNCHANGED <<storeVars, mergeVars, diffVars, sceneVars, historyVars>>

\* Step 2: the evaluator's evaluate step
EvaluatorStep ==
    /\ engine.pc = "evaluator"
    /\ \E outcome \in AgentOutcomes("evaluate") :
          execution' = executeStep(execution, "evaluate", outcome)
    /\ engine' = [engine EXCEPT !.pc = "threshold"]
    /\ UNCHANGED <<storeVars, mergeVars, diffVars, sceneVars, historyVars>>

\* Step 3: complete and break when the quality threshold is met
ThresholdCheck ==
    /\ engine.pc = "threshold"
    /\ IF /\ execution.qualityMetrics # NoMetrics
          /\ execution.qualityMetrics.overall >= execution.context.qualityThreshold
       THEN /\ execution' = Complete(execution)
            /\ engine' = [engine EXCEPT !.pc = "returned", !.exit = "quality"]
       ELSE /\ engine' = [engine EXCEPT !.pc = "while"]
            /\ UNCHANGED execution
    /\ UNCHANGED <<storeVars, mergeVars, diffVars, sceneVars, historyVars>>

EngineNext ==
    \/ WhileExit
    \/ StopBreak
    \/ StartIteration
    \/ WorkerStep
    \/ EvaluatorStep
    \/ ThresholdCheck

EngineSpec == EngineInit /\ [][EngineNext]_vars

\* every awaited model call settles, so executeMultiStep keeps running
EngineFairSpec == EngineSpec /\ WF_vars(EngineNext)

(***************************************************************************)
(* The undo history of the design-editor store                             *)
(* (src/lib/design-editor/store.ts:237-291).                               *)
(***************************************************************************)
\* if (state.history.length > 50)
HistoryLimit == 50

\* the action names pushed
HistoryActions == {"edit"}

\* array.slice(from, to), from >= 0
Slice(array, from, to) == SubSeq(array, from + 1, to)

\* array.slice(-n)
SliceLast(array, n) ==
    IF Len(array) > n THEN SubSeq(array, Len(array) - n + 1, Len(array)) ELSE array

\* a push that keeps every entry pushed
LimitHistoryNone(entries) == entries

\* Limit history size
LimitHistory(entries) ==
    IF Len(entries) > HistoryLimit THEN SliceLast(entries, HistoryLimit) ELSE entries

canUndo == historyIndex >= 0

canRedo == historyIndex < Len(history) - 1

PushHistory ==
    /\ \E action \in HistoryActions :
          LET entry == [action |-> action, timestamp |-> now]
              pushed == Append(Slice(history, 0, historyIndex + 1), entry)
          IN /\ history' = LimitHistory(pushed)
             /\ historyIndex' = Len(LimitHistory(pushed)) - 1
    /\ UNCHANGED <<storeVars, mergeVars, diffVars, engineVars, sceneVars>>

Undo ==
    /\ IF ~canUndo
       THEN UNCHANGED historyIndex
       ELSE historyIndex' = historyIndex - 1
    /\ UNCHANGED <<storeVars, mergeVars, diffVars, engineVars, sceneVars, history>>

Redo ==
    /\ IF ~canRedo
       THEN UNCHANGED historyIndex
       ELSE historyIndex' = historyIndex + 1
    /\ UNCHANGED <<storeVars, mergeVars, diffVars, engineVars, sceneVars, history>>

HistoryInit == StoreInit /\ NoMerge /\ NoDiff /\ NoEngine /\ EditorInit

HistoryNext == PushHistory \/ Undo \/ Redo \/ Tick

HistorySpec == HistoryInit /\ [][HistoryNext]_vars

(***************************************************************************)
(* The scene graph of the design-editor store                              *)
(* (src/lib/design-editor/store.ts:47-220).  An id is the number of the    *)
(* nanoid() call that returned it.                                         *)
(***************************************************************************)
\* nanoid() calls in one behaviour
MaxObjects == 2
\* the longest rootObjects, children or selectedIds list
MaxListLength == 2

\* parentId: null
NoParent == 0
\* moveObject: index not given
NoIndex == -1

\* the ids the store has returned
ReturnedIds == 1..(nextId - 1)

\* state.objects[id] is defined
Has(objs, id) == id \in DOMAIN objs

\* list.filter(x => x !== id)
Without(list, id) == SelectSeq(list, LAMBDA x : x # id)

\* state.objects[id] = object
WithObject(objs, id, object) ==
    [k \in DOMAIN objs \cup {id} |-> IF k = id THEN object ELSE objs[k]]

\* remove id from its parent's children, or from rootObjects
Detach(scene, id) ==
    LET parentId == scene.objects[id].parentId
    IN IF parentId # NoParent
       THEN IF Has(scene.objects, parentId)
            THEN [scene EXCEPT !.objects[parentId].children = Without(@, id)]
            ELSE scene
       ELSE [scene EXCEPT !.rootObjects = Without(@, id)]

\* list.push(id), or list.splice(index, 0, id) when an index is given
Insert(list, index, id) ==
    IF index = NoIndex THEN Append(list, id) ELSE SpliceIn(list, index, id)

\* add id to the children of parentId if that object exists, or to rootObjects
Attach(scene, id, parentId, index) ==
    IF parentId # NoParent
    THEN IF Has(scene.objects, parentId)
         THEN [scene EXCEPT !.objects[parentId].children = Insert(@, index, id)]
         ELSE scene
    ELSE [scene EXCEPT !.rootObjects = Insert(@, index, id)]

\* the ids deleteRecursive visits from the ids in frontier
RECURSIVE Visited(_, _, _)
Visited(objs, frontier, seen) ==
    IF frontier \subseteq seen THEN seen
    ELSE LET new == frontier \ seen
             next == UNION {{objs[k].children[c] : c \in DOMAIN objs[k].children} :
                              k \in new \cap DOMAIN objs}
         IN Visited(objs, next, seen \cup new)

ChildrenOf(objs, id) ==
    IF Has(objs, id) THEN {objs[id].children[c] : c \in DOMAIN objs[id].children} ELSE {}

\* deleteRecursive(id) never returns: an object it visits is its own descendant
RecursesForever(objs, id) ==
    \E k \in Visited(objs, {id}, {}) \cap DOMAIN objs :
        k \in Visited(objs, ChildrenOf(objs, k), {})

\* the objects left by deleteRecursive(id)
deleteRecursive(objs, id) ==
    LET gone == Visited(objs, {id}, {})
    IN [k \in DOMAIN objs \ gone |-> objs[k]]

Scene == [objects |-> objects, rootObjects |-> rootObjects]

\* no list grows past MaxListLength
Bounded(scene) ==
    /\ Len(scene.rootObjects) <= MaxListLength
    /\ \A k \in DOMAIN scene.objects : Len(scene.objects[k].children) <= MaxListLength

SetScene(scene) ==
    /\ Bounded(scene)
    /\ objects' = scene.objects
    /\ rootObjects' = scene.rootObjects

AddObject ==
    /\ nextId <= MaxObjects
    /\ \E parentId \in {NoParent} \cup ReturnedIds :
          LET id == nextId
              object == [parentId |-> parentId, children |-> <<>>]
          IN /\ SetScene(Attach([Scene EXCEPT !.objects = WithObject(@, id, object)],
                                id, parentId, NoIndex))
             /\ selectedIds' = <<id>>
             /\ nextId' = nextId + 1
    /\ UNCHANGED <<storeVars, mergeVars, diffVars, engineVars, historyVars>>

DeleteObject ==
    /\ \E id \in ReturnedIds :
          IF ~Has(objects, id)
          THEN UNCHANGED <<objects, rootObjects, selectedIds>>
          ELSE LET detached == Detach(Scene, id)
               IN IF RecursesForever(detached.objects, id)
                  \* RangeError thrown inside set(): the draft is discarded
                  THEN UNCHANGED <<objects, rootObjects, selectedIds>>
                  ELSE /\ SetScene([detached EXCEPT !.objects = deleteRecursive(@, id)])
                       /\ selectedIds' = Without(selectedIds, id)
    /\ UNCHANGED <<storeVars, mergeVars, diffVars, engineVars, historyVars, nextId>>

DuplicateObject ==
    /\ \E id \in ReturnedIds :
          IF ~Has(objects, id)
          THEN UNCHANGED <<objects, rootObjects, selectedIds, nextId>>
          ELSE /\ nextId <= MaxObjects
               /\ LET newId == nextId
                      duplicatedObject == [objects[id] EXCEPT !.children = <<>>]
                  IN /\ SetScene(Attach([Scene EXCEPT !.objects =
                                             WithObject(@, newId, duplicatedObject)],
                                        newId, duplicatedObject.parentId, NoIndex))
                     /\ selectedIds' = <<newId>>
                     /\ nextId' = nextId + 1
    /\ UNCHANGED <<storeVars, mergeVars, diffVars, engineVars, historyVars>>

SelectObject ==
    /\ \E id \in ReturnedIds, multi \in BOOLEAN :
          /\ selectedIds' =
                IF multi
                THEN IF \E k \in DOMAIN selectedIds : selectedIds[k] = id
                     THEN Without(selectedIds, id)
                     ELSE Append(selectedIds, id)
                ELSE <<id>>
          /\ Len(selectedIds') <= MaxListLength
    /\ UNCHANGED <<storeVars, mergeVars, diffVars, engineVars, historyVars, objects,
                   rootObjects, nextId>>

SelectObjects ==
    /\ \E ids \in UNION {[1..n -> ReturnedIds] : n \in 0..2} : selectedIds' = ids
    /\ UNCHANGED <<storeVars, mergeVars, diffVars, engineVars, historyVars, objects,
                   rootObjects, nextId>>

ClearSelection ==
    /\ selectedIds' = <<>>
    /\ UNCHANGED <<storeVars, mergeVars, diffVars, engineVars, historyVars, objects,
                   rootObjects, nextId>>

MoveObject ==
    /\ \E id \in ReturnedIds, newParentId \in {NoParent} \cup ReturnedIds,
          index \in {NoIndex, 0} :
          IF ~Has(objects, id)
          THEN UNCHANGED <<objects, rootObjects>>
          ELSE LET detached == Detach(Scene, id)
                   moved == [detached EXCEPT !.objects[id].parentId = newParentId]
               IN SetScene(Attach(moved, id, newParentId, index))
    /\ UNCHANGED <<storeVars, mergeVars, diffVars, engineVars, historyVars, selectedIds,
                   nextId>>

SetObjectParent ==
    /\ \E id \in ReturnedIds, parentId \in {NoParent} \cup ReturnedIds :
          IF Has(objects, id)
          THEN objects' = [objects EXCEPT ![id].parentId = parentId]
          ELSE UNCHANGED objects
    /\ UNCHANGED <<storeVars, mergeVars, diffVars, engineVars, historyVars, rootObjects,
                   selectedIds, nextId>>

SceneInit == StoreInit /\ NoMerge /\ NoDiff /\ NoEngine /\ EditorInit

SceneNext ==
    \/ AddObject
    \/ DeleteObject
    \/ DuplicateObject
    \/ SelectObject
    \/ SelectObjects
    \/ ClearSelection
    \/ MoveObject
    \/ SetObjectParent

SceneSpec == SceneInit /\ [][SceneNext]_vars

(***************************************************************************)
(* Vocabulary of the claims.                                               *)
(***************************************************************************)
Done(p) == call[p].pc = "done"
Succeeded(p) == Done(p) /\ call[p].result = "ok"
Failed(p) == Done(p) /\ call[p].result # "ok"

\* the stored state is what it was when the call of p started
StoreAsBefore(p) ==
    /\ versions = call[p].before.versions
    /\ document = call[p].before.document
    /\ changeLog = call[p].before.changeLog
    /\ branches = call[p].before.branches
    /\ tags = call[p].before.tags

VersionNumbersOf(a) == {versions[i].version : i \in VersionIdsOf(a)}

\* the version numbers artifact a had when the call of p started
NumbersBefore(p, a) ==
    {call[p].before.versions[i].version :
        i \in {j \in DOMAIN call[p].before.versions :
                  call[p].before.versions[j].artifactId = a}}

\* the target of the restore call of p was a version of its artifact
TargetExisted(p) ==
    /\ call[p].versionId \in DOMAIN call[p].before.versions
    /\ call[p].before.versions[call[p].versionId].artifactId = call[p].artifactId

\* user u owns artifact a or is a collaborator with write or admin permission
HasWriteAccess(u, a) ==
    \/ Owner[a] = u
    \/ \E c \in collaborators :
          c.artifactId = a /\ c.userId = u /\ c.permission \in {"write", "admin"}

(***************************************************************************)
(* C1 (SeqSpec). Under sequential use, whenever no call is in progress     *)
(* and an artifact has versions, exactly one of them is active, and it is  *)
(* the one with the highest version number, which is the one created last. *)
(***************************************************************************)
C1_OneActiveIsLatest ==
    \A a \in Artifacts :
        (AllFree /\ VersionIdsOf(a) # {}) =>
            \E i \in VersionIdsOf(a) :
                /\ ActiveIdsOf(a) = {i}
                /\ versions[i].version = Max(VersionNumbersOf(a))
                /\ i = Max(VersionIdsOf(a))

C1_Witness ==
    /\ AllFree
    /\ \E a \in Artifacts :
          /\ Cardinality(VersionIdsOf(a)) >= 3
          /\ Cardinality(ActiveIdsOf(a)) = 1

(***************************************************************************)
(* C2 (Spec). With interleaved createArtifactVersion calls, all stored     *)
(* versions of one artifact have distinct version numbers.                 *)
(***************************************************************************)
C2_DistinctVersionNumbers ==
    \A i, j \in DOMAIN versions :
        (i # j /\ versions[i].artifactId = versions[j].artifactId) =>
            versions[i].version # versions[j].version

(***************************************************************************)
(* C3 (Spec). With interleaved createArtifactVersion calls, no state has   *)
(* two active versions of one artifact.                                    *)
(***************************************************************************)
C3_AtMostOneActive ==
    \A a \in Artifacts : Cardinality(ActiveIdsOf(a)) <= 1

(***************************************************************************)
(* C4 (Spec). Once an artifact has a version, every state, those between   *)
(* the statements of a running createArtifactVersion included, has an      *)
(* active version of it.                                                   *)
(***************************************************************************)
C4_NeverZeroActive ==
    \A a \in Artifacts : VersionIdsOf(a) # {} => ActiveIdsOf(a) # {}

(***************************************************************************)
(* C5 (FaultSpec). A createArtifactVersion that failed at any statement    *)
(* leaves the version table (isActive flags included), the document and    *)
(* the change log as they were before the call.                            *)
(***************************************************************************)
C5_FailedCreateLeavesNoTrace ==
    \A p \in Procs :
        (Failed(p) /\ call[p].op = "create") => StoreAsBefore(p)

(***************************************************************************)
(* C6 (SeqSpec). Under sequential use the k-th version created for an      *)
(* artifact has number k (numbers start at 1, step by 1, never repeat),    *)
(* and a successful create or restore returns a version whose number is    *)
(* the highest number the artifact had before the call, plus one.          *)
(***************************************************************************)
C6_NumbersIncreaseByOne ==
    /\ \A a \in Artifacts : \A i \in VersionIdsOf(a) :
          versions[i].version = Cardinality({j \in VersionIdsOf(a) : j <= i})
    /\ \A p \in Procs :
          (Succeeded(p) /\ call[p].op \in {"create", "restore"}) =>
              /\ call[p].newVersionId \in VersionIdsOf(call[p].artifactId)
              /\ versions[call[p].newVersionId].version =
                    IF NumbersBefore(p, call[p].artifactId) = {} THEN 1
                    ELSE Max(NumbersBefore(p, call[p].artifactId)) + 1

C6_Witness ==
    \E p \in Procs :
        /\ Succeeded(p)
        /\ call[p].op = "restore"
        /\ versions[call[p].newVersionId].version = 2
        /\ \E a \in Artifacts : a # call[p].artifactId /\ VersionIdsOf(a) # {}

(***************************************************************************)
(* C7 (SeqSpec). A successful restoreArtifactVersion of version n of the   *)
(* artifact appends exactly one version: its title and content are those   *)
(* of version n, its commit message is "Restored from version n", its      *)
(* author is userId and it is the one active version; every earlier row    *)
(* is still there and differs at most in isActive.                         *)
(***************************************************************************)
C7_RestoreAppends ==
    \A p \in Procs :
        (Succeeded(p) /\ call[p].op = "restore") =>
            LET old == call[p].before.versions
                n == old[call[p].versionId]
                new == versions[Len(versions)]
            IN /\ TargetExisted(p)
               /\ Len(versions) = Len(old) + 1
               /\ call[p].newVersionId = Len(versions)
               /\ new.artifactId = call[p].artifactId
               /\ new.title = n.title
               /\ new.content = n.content
               /\ new.commitMessage = "Restored from version " \o ToString(n.version)
               /\ new.authorId = call[p].user
               /\ ActiveIdsOf(call[p].artifactId) = {Len(versions)}
               /\ \A i \in DOMAIN old :
                     versions[i] = [old[i] EXCEPT !.isActive = versions[i].isActive]

\* create A, create B, restore v1: three versions, v3 has content A
C7_Witness ==
    \E p \in Procs : \E a \in Artifacts :
        /\ Succeeded(p) /\ call[p].op = "restore" /\ call[p].artifactId = a
        /\ VersionIdsOf(a) = {1, 2, 3}
        /\ versions[1].content = "A" /\ versions[2].content = "B"
        /\ versions[3].content = "A" /\ versions[3].version = 3
        /\ versions[3].commitMessage = "Restored from version 1"

(***************************************************************************)
(* C8 (SeqSpec). A restoreArtifactVersion whose versionId names no version *)
(* of artifactId ends with a not-found error at the caller and leaves the  *)
(* stored state unchanged.                                                 *)
(***************************************************************************)
C8_NotFoundReachesCaller ==
    \A p \in Procs :
        (Done(p) /\ call[p].op = "restore" /\ ~TargetExisted(p)) =>
            /\ call[p].result = "not_found:database"
            /\ StoreAsBefore(p)

(***************************************************************************)
(* C9 (GuardSpec). A create-version, restore-version, create-branch or     *)
(* create-tag request of a user who neither owns the artifact nor is a     *)
(* write/admin collaborator of it is rejected and changes nothing.         *)
(***************************************************************************)
C9_WriteNeedsPermission ==
    \A p \in Procs :
        (/\ Done(p)
         /\ call[p].op \in {"create", "restore", "branch", "tag"}
         /\ ~HasWriteAccess(call[p].user, call[p].artifactId)) =>
            /\ call[p].result # "ok"
            /\ StoreAsBefore(p)

(***************************************************************************)
(* C10 (Spec). A createVersion that lost a collision with a concurrent     *)
(* writer (its insert was refused by the unique constraint) ends either    *)
(* successfully, after a retry, or with a conflict error.                  *)
(***************************************************************************)
C10_CollisionRetriedOrConflict ==
    \A p \in Procs :
        (Done(p) /\ call[p].error = "unique_violation"
                 /\ call[p].op \in {"create", "restore"}) =>
            call[p].result \in {"ok", "conflict:database"}

(***************************************************************************)
(* C11 (Spec). Whenever no call is running on an artifact and the artifact *)
(* has one active version, the document's title and content are those of   *)
(* that version, also after interleaved createArtifactVersion calls.       *)
(***************************************************************************)
NoCallOn(a) == \A p \in Procs : InFlight(p) => call[p].artifactId # a

C11_DocumentIsActiveVersion ==
    \A a \in Artifacts : \A i \in VersionIdsOf(a) :
        (NoCallOn(a) /\ ActiveIdsOf(a) = {i}) =>
            /\ document[a].title = versions[i].title
            /\ document[a].content = versions[i].content

(***************************************************************************)
(* C12 (SeqSpec). A successful create or restore appends exactly one log   *)
(* entry: for the artifact, with the new version's id, the author as       *)
(* userId and the new version number in its details; between calls every   *)
(* version of an artifact has exactly one such entry and the artifact has  *)
(* as many of them as versions.                                            *)
(***************************************************************************)
VersionEntriesOf(a) ==
    {k \in DOMAIN changeLog :
        changeLog[k].artifactId = a /\ changeLog[k].versionId # NoVersion}

C12_OneLogEntryPerVersion ==
    /\ \A p \in Procs :
          (Succeeded(p) /\ call[p].op \in {"create", "restore"}) =>
              LET e == changeLog[Len(changeLog)]
              IN /\ Len(changeLog) = Len(call[p].before.changeLog) + 1
                 /\ e.artifactId = call[p].artifactId
                 /\ e.versionId = call[p].newVersionId
                 /\ e.userId = versions[call[p].newVersionId].authorId
                 /\ e.details.version = versions[call[p].newVersionId].version
    /\ AllFree =>
          \A a \in Artifacts :
              /\ Cardinality(VersionEntriesOf(a)) = Cardinality(VersionIdsOf(a))
              /\ \A i \in VersionIdsOf(a) :
                    Cardinality({k \in VersionEntriesOf(a) : changeLog[k].versionId = i}) = 1

C12_Witness ==
    /\ \E p \in Procs : Succeeded(p) /\ call[p].op = "restore"
    /\ Len(changeLog) = 3
    /\ \E a \in Artifacts : Cardinality(VersionIdsOf(a)) = 1

(***************************************************************************)
(* C13 (GuardSpec). A successful createArtifactBranch appends a log entry  *)
(* with action 'branch' for the artifact, a successful createArtifactTag   *)
(* one with action 'tag'.                                                  *)
(***************************************************************************)
C13_BranchAndTagAreLogged ==
    \A p \in Procs :
        (Succeeded(p) /\ call[p].op \in {"branch", "tag"}) =>
            /\ Len(changeLog) = Len(call[p].before.changeLog) + 1
            /\ changeLog[Len(changeLog)].action = call[p].op
            /\ changeLog[Len(changeLog)].artifactId = call[p].artifactId

(***************************************************************************)
(* C14 (GuardSpec). The change log is append-only: no step of any          *)
(* operation removes or alters an entry already written.                   *)
(***************************************************************************)
C14_LogAppendOnly ==
    [][\A k \in DOMAIN changeLog :
          k \in DOMAIN changeLog' /\ changeLog'[k] = changeLog[k]]_vars

C14_Witness ==
    \E j, k \in DOMAIN changeLog :
        /\ j < k
        /\ changeLog[j].action = "create"
        /\ changeLog[k].action = "update"

(***************************************************************************)
(* C15 (GuardSpec). No two branches of one artifact have the same name,    *)
(* and no two tags of one artifact have the same name.                     *)
(***************************************************************************)
C15_NamesUniquePerArtifact ==
    /\ \A i, j \in DOMAIN branches :
          (i # j /\ branches[i].artifactId = branches[j].artifactId) =>
              branches[i].name # branches[j].name
    /\ \A i, j \in DOMAIN tags :
          (i # j /\ tags[i].artifactId = tags[j].artifactId) =>
              tags[i].name # tags[j].name

(***************************************************************************)
(* C16 (GuardSpec). No step of createVersion, restoreVersion, createBranch *)
(* or createTag deletes a version or changes any field of a stored version *)
(* other than isActive.                                                    *)
(***************************************************************************)
C16_VersionsImmutable ==
    [][\A i \in DOMAIN versions :
          /\ i \in DOMAIN versions'
          /\ versions'[i] = [versions[i] EXCEPT !.isActive = versions'[i].isActive]]_vars

C16_Witness ==
    /\ \E i, j \in DOMAIN versions :
          /\ i < j
          /\ versions[i].artifactId = versions[j].artifactId
          /\ versions[i].content # versions[j].content
          /\ ~versions[i].isActive
    /\ Len(branches) + Len(tags) >= 1

(***************************************************************************)
(* C17 (CreateRaceSpec). Any two distinct stored versions have distinct    *)
(* commit hashes, also with identical content, and also when written by    *)
(* concurrent calls within one clock instant.                              *)
(***************************************************************************)
C17_CommitHashesDistinct ==
    \A i, j \in DOMAIN versions :
        i # j => versions[i].commitHash # versions[j].commitHash

\* two versions of one artifact with the same content, hashed in the same instant
\* by calls that ran concurrently
C17_Witness ==
    /\ \E i, j \in DOMAIN versions :
          /\ i # j
          /\ versions[i].artifactId = versions[j].artifactId
          /\ versions[i].content = versions[j].content
          /\ versions[i].commitHash.timestamp = versions[j].commitHash.timestamp
    /\ \A p \in Procs : InFlight(p)

(***************************************************************************)
(* Vocabulary of the merge claims: the lines of the three inputs by        *)
(* position (counted from 1), and where a position's output starts in the  *)
(* merged lines.                                                           *)
(***************************************************************************)
MergeDone == mergeResult.pc = "done"

BaseLines == Split(baseContent)
CurrentLines == Split(currentContent)
IncomingLines == Split(incomingContent)
MergedLines == Split(mergeResult.content)

\* the line of an input at position i, Undefined past its end
At(lines, i) == LineAt(lines, i - 1)

Positions(b, c, n) == 1..Max3(Len(b), Len(c), Len(n))

\* both sides differ from base and from each other at position i
Diverges(b, c, n, i) ==
    /\ At(c, i) # At(n, i)
    /\ At(c, i) # At(b, i)
    /\ At(n, i) # At(b, i)

DivergingPositions(b, c, n) == {i \in Positions(b, c, n) : Diverges(b, c, n, i)}

\* a conflict block is five lines: each earlier conflict shifts the output by four
OutputIndex(diverging, i) == i + 4 * Cardinality({j \in diverging : j < i})

\* no conflict record names line i
NoConflictAt(i) == \A q \in DOMAIN mergeResult.conflicts : mergeResult.conflicts[q].line # i

\* a line as a conflict record or block shows it: an absent line shows as ''
Shown(line) == IF line = Undefined THEN <<>> ELSE line

(***************************************************************************)
(* C18 (MergeSpec). For every base, mergeContent(base, c, c) succeeds      *)
(* without conflicts and its content is exactly c.                         *)
(***************************************************************************)
C18_MergeOfEqualSides ==
    (MergeDone /\ currentContent = incomingContent) =>
        /\ mergeResult.success
        /\ mergeResult.conflicts = <<>>
        /\ mergeResult.content = currentContent

C20_ConflictsRecordedAndMarked ==
    MergeDone =>
        LET b == BaseLines
            c == CurrentLines
            n == IncomingLines
            m == MergedLines
            d == DivergingPositions(b, c, n)
            conflicts == mergeResult.conflicts
        IN /\ mergeResult.success <=> (conflicts = <<>>)
           /\ {conflicts[q].line : q \in DOMAIN conflicts} = d
           /\ Len(conflicts) = Cardinality(d)
           /\ \A q \in DOMAIN conflicts :
                 /\ \A r \in DOMAIN conflicts : q < r => conflicts[q].line < conflicts[r].line
                 /\ conflicts[q].current = Shown(At(c, conflicts[q].line))
                 /\ conflicts[q].incoming = Shown(At(n, conflicts[q].line))
                 /\ conflicts[q].base = At(b, conflicts[q].line)
           /\ \A i \in d :
                 SubSeq(m, OutputIndex(d, i), OutputIndex(d, i) + 4) =
                     << <<"<<<<<<< current">>, Shown(At(c, i)), <<"=======">>,
                        Shown(At(n, i)), <<">>>>>>> incoming">> >>

\* base "x", current "y", incoming "z": success = false, one conflict at line 1
C20_Witness ==
    /\ MergeDone
    /\ baseContent = <<"x">> /\ currentContent = <<"y">> /\ incomingContent = <<"z">>
    /\ ~mergeResult.success
    /\ mergeResult.conflicts =
          <<[line |-> 1, current |-> <<"y">>, incoming |-> <<"z">>, base |-> <<"x">>]>>

(***************************************************************************)
(* Vocabulary of the diff and patch claims.                                *)
(***************************************************************************)
DiffDone == diffResult.pc = "done"
UnifiedDone == unifiedDiff.pc = "done"
PatchApplied == patched.pc = "done"

\* the empty string
EmptyContent == <<>>

OldLines == Split(oldContent)
NewLines == Split(newContent)

\* longer is shorter with one whole line inserted, the other lines unchanged
OneLineInserted(shorter, longer) ==
    \E k \in 1..Len(longer) :
        SubSeq(longer, 1, k - 1) \o SubSeq(longer, k + 1, Len(longer)) = shorter

(***************************************************************************)
(* C21 (DiffSpec). generateDiff("", "") reports no addition, deletion or   *)
(* modification; generateDiff(old, "") for an old content of k lines       *)
(* reports k deletions and nothing else; generateDiff("", new) reports     *)
(* only additions.                                                         *)
(***************************************************************************)
C21_DiffAgainstEmpty ==
    DiffDone =>
        /\ (oldContent = EmptyContent /\ newContent = EmptyContent) =>
              /\ diffResult.stats.addedLines = 0
              /\ diffResult.stats.deletedLines = 0
              /\ diffResult.stats.modifiedLines = 0
        /\ (oldContent # EmptyContent /\ newContent = EmptyContent) =>
              /\ diffResult.stats.deletedLines = Len(OldLines)
              /\ diffResult.stats.addedLines = 0
              /\ diffResult.stats.modifiedLines = 0
        /\ (oldContent = EmptyContent /\ newContent # EmptyContent) =>
              /\ diffResult.stats.addedLines >= 1
              /\ diffResult.stats.deletedLines = 0
              /\ diffResult.stats.modifiedLines = 0

(***************************************************************************)
(* C22 (DiffSpec). Inserting one whole line anywhere in a text whose other *)
(* lines are unchanged yields exactly one addition and no modification;    *)
(* deleting one whole line yields exactly one deletion and no              *)
(* modification.                                                           *)
(***************************************************************************)
C22_DiffAlignsLines ==
    DiffDone =>
        /\ OneLineInserted(OldLines, NewLines) =>
              /\ diffResult.stats.addedLines = 1
              /\ diffResult.stats.modifiedLines = 0
        /\ OneLineInserted(NewLines, OldLines) =>
              /\ diffResult.stats.deletedLines = 1
              /\ diffResult.stats.modifiedLines = 0

(***************************************************************************)
(* Reading a unified diff: its hunk headers and the lines of each hunk.    *)
(***************************************************************************)
UnifiedLines == Split(unifiedDiff.text)

\* the number a header token spells
NumberOf(token) == CHOOSE n \in 0..(2 * MaxLines + 2) : ToString(n) = token

IsHunkHeader(line) == StartsWith(line, "@")

\* the index of the last line of the hunk whose header is line h
HunkEnd(lines, h) ==
    IF \E e \in (h + 1)..Len(lines) : IsHunkHeader(lines[e])
    THEN (CHOOSE e \in (h + 1)..Len(lines) :
              IsHunkHeader(lines[e]) /\ \A f \in (h + 1)..(e - 1) : ~IsHunkHeader(lines[f])) - 1
    ELSE Len(lines)

\* the lines of a hunk that start with c or are context, without the first character
RECURSIVE SideOf(_, _)
SideOf(body, c) ==
    IF body = <<>> THEN <<>>
    ELSE (IF StartsWith(Head(body), c) \/ StartsWith(Head(body), " ")
          THEN <<Tail(Head(body))>> ELSE <<>>) \o SideOf(Tail(body), c)

(***************************************************************************)
(* C23 (DiffSpec). The unified diff starts with '--- oldLabel' and         *)
(* '+++ newLabel', and each hunk header '@@ -oldStart,oldLines             *)
(* +newStart,newLines @@' states the actual start line and line counts of  *)
(* its hunk: the old side of the hunk is the oldLines old lines at         *)
(* oldStart, the new side the newLines new lines at newStart.              *)
(***************************************************************************)
C23_HunkHeadersTrue ==
    UnifiedDone =>
        LET u == UnifiedLines
        IN /\ Len(u) >= 2
           /\ u[1] = <<"-", "-", "-", " ">> \o OldLabel
           /\ u[2] = <<"+", "+", "+", " ">> \o NewLabel
           /\ \A h \in 3..Len(u) : IsHunkHeader(u[h]) =>
                 LET oldStart == NumberOf(u[h][5])
                     oldCount == NumberOf(u[h][7])
                     newStart == NumberOf(u[h][10])
                     newCount == NumberOf(u[h][12])
                     body == SubSeq(u, h + 1, HunkEnd(u, h))
                 IN /\ Len(SideOf(body, "-")) = oldCount
                    /\ Len(SideOf(body, "+")) = newCount
                    /\ oldCount > 0 =>
                          SideOf(body, "-") =
                              SubSeq(OldLines, oldStart, oldStart + oldCount - 1)
                    /\ newCount > 0 =>
                          SideOf(body, "+") =
                              SubSeq(NewLines, newStart, newStart + newCount - 1)

(***************************************************************************)
(* C25 (DiffSpec). Applying the patch created from old and new to old      *)
(* gives new: applyPatch(old, createPatch(old, new)) = new.                *)
(***************************************************************************)
C25_PatchRoundTrip ==
    PatchApplied => patched.content = newContent

(***************************************************************************)
(* C27 (MergeSpec). Merging against an unchanged side is the identity on   *)
(* the changed side: mergeContent(base, c, base) and                       *)
(* mergeContent(base, base, c) succeed without conflicts and return        *)
(* content exactly c, for every base and c.                                *)
(***************************************************************************)
C27_MergeWithUnchangedSide ==
    MergeDone =>
        /\ incomingContent = baseContent =>
              /\ mergeResult.success
              /\ mergeResult.conflicts = <<>>
              /\ mergeResult.content = currentContent
        /\ currentContent = baseContent =>
              /\ mergeResult.success
              /\ mergeResult.conflicts = <<>>
              /\ mergeResult.content = incomingContent

(***************************************************************************)
(* Vocabulary of the execution-engine claims.                              *)
(***************************************************************************)
Returned == engine.pc = "returned"

LastStep(exec) == exec.steps[Len(exec.steps)]

QualityMet(exec) ==
    /\ exec.qualityMetrics # NoMetrics
    /\ exec.qualityMetrics.overall >= exec.context.qualityThreshold

(***************************************************************************)
(* C24 (EngineFairSpec). executeMultiStep terminates: it enters at most    *)
(* maxIterations loop iterations, each with at most two agent steps,       *)
(* currentIteration never exceeds maxIterations, and it returns, also when *)
(* every worker step fails and no stop condition ever holds.               *)
(***************************************************************************)
C24_MultiStepTerminates ==
    /\ [](/\ engine.iterations <= execution.context.maxIterations
          /\ execution.context.currentIteration <= execution.context.maxIterations
          /\ Len(execution.steps) <= 2 * engine.iterations)
    /\ <>Returned

\* every worker step failed and no stop condition was passed: five iterations, then return
C24_Witness ==
    /\ Returned
    /\ engine.stopConditions = {}
    /\ engine.exit = "exhausted"
    /\ engine.iterations = DefaultMaxIterations
    /\ Len(execution.steps) = DefaultMaxIterations
    /\ \A k \in DOMAIN execution.steps : ~execution.steps[k].success

(***************************************************************************)
(* C26 (EngineSpec). When an iteration after the first runs an 'improve'   *)
(* step that succeeds and returns content, context.currentContent becomes  *)
(* that content and the previous content is appended to                    *)
(* context.previousVersions.                                               *)
(***************************************************************************)
C26_ImprovedContentAdopted ==
    [][(engine.pc = "worker" /\ Len(execution'.steps) = Len(execution.steps) + 1) =>
          LET step == LastStep(execution')
          IN (step.type = "improve" /\ step.success /\ Truthy(step.output.content)) =>
                /\ execution'.context.currentContent = step.output.content
                /\ execution'.context.previousVersions =
                      Append(execution.context.previousVersions,
                             execution.context.currentContent)]_vars

(***************************************************************************)
(* C28 (EngineSpec). When executeMultiStep returns with isComplete = true, *)
(* finalContent equals context.currentContent and either a stop condition  *)
(* held at the start of an iteration or qualityMetrics.overall >=          *)
(* qualityThreshold after an evaluate step; when it returns with           *)
(* isComplete = false, currentIteration equals maxIterations and           *)
(* finalContent is still the empty string.                                 *)
(***************************************************************************)
C28_ReturnedExecution ==
    Returned =>
        /\ execution.isComplete =>
              /\ execution.finalContent = execution.context.currentContent
              /\ \/ /\ engine.exit = "stop"
                    /\ shouldStop(execution, engine.stopConditions)
                 \/ /\ engine.exit = "quality"
                    /\ LastStep(execution).type = "evaluate"
                    /\ QualityMet(execution)
        /\ ~execution.isComplete =>
              /\ execution.context.currentIteration = execution.context.maxIterations
              /\ execution.finalContent = ""

\* completed by the quality threshold in the second iteration, with generated content
C28_Witness ==
    /\ Returned
    /\ execution.isComplete
    /\ engine.exit = "quality"
    /\ execution.context.currentIteration = 2
    /\ execution.context.currentContent = "v1"
    /\ execution.finalContent = "v1"

(***************************************************************************)
(* C29 (HistorySpec). After any sequence of pushHistory, undo and redo:    *)
(* -1 <= historyIndex <= history.length - 1 and history.length <= 50;      *)
(* pushHistory drops every entry after historyIndex before it appends, so  *)
(* canRedo() is false right after it; undo with historyIndex = -1 and redo *)
(* with historyIndex = history.length - 1 change nothing.                  *)
(***************************************************************************)
C29_HistoryBounds ==
    /\ [](/\ -1 <= historyIndex
          /\ historyIndex <= Len(history) - 1
          /\ Len(history) <= HistoryLimit)
    /\ [][/\ PushHistory =>
                LET kept == SubSeq(history, 1, historyIndex + 1)
                    n == Len(history')
                IN /\ n = IF Len(kept) + 1 > HistoryLimit THEN HistoryLimit
                          ELSE Len(kept) + 1
                   /\ SubSeq(history', 1, n - 1) =
                         SubSeq(kept, Len(kept) - (n - 1) + 1, Len(kept))
                   /\ history'[n].timestamp = now
                   /\ ~canRedo'
          /\ (Undo /\ historyIndex = -1) => UNCHANGED historyVars
          /\ (Redo /\ historyIndex = Len(history) - 1) => UNCHANGED historyVars]_vars

\* a full history, pushed past the limit, then undone to the start
C29_Witness ==
    /\ Len(history) = HistoryLimit
    /\ history[1].timestamp = 1
    /\ historyIndex = -1

(***************************************************************************)
(* Vocabulary of the scene-graph claim.                                    *)
(***************************************************************************)
\* how often id occurs in list
Occurrences(list, id) == Cardinality({k \in DOMAIN list : list[k] = id})

ElementsOf(list) == {list[k] : k \in DOMAIN list}

\* the objects reached from id by following parentId, id itself not counted
RECURSIVE AncestorsFrom(_, _)
AncestorsFrom(id, seen) ==
    IF ~Has(objects, id) \/ objects[id].parentId = NoParent
          \/ objects[id].parentId \in seen
    THEN seen
    ELSE AncestorsFrom(objects[id].parentId, seen \cup {objects[id].parentId})

(***************************************************************************)
(* C30 (SceneSpec). After any sequence of addObject, deleteObject,         *)
(* duplicateObject, moveObject, setObjectParent and selection operations   *)
(* on ids returned by the store: every id in rootObjects, in a children    *)
(* list or in selectedIds is a key of objects; an object with parentId     *)
(* null is exactly once in rootObjects and an object with parentId p       *)
(* exactly once in objects[p].children; the parent relation has no cycle.  *)
(***************************************************************************)
C30_SceneGraphConsistent ==
    /\ ElementsOf(rootObjects) \subseteq DOMAIN objects
    /\ ElementsOf(selectedIds) \subseteq DOMAIN objects
    /\ \A id \in DOMAIN objects :
          /\ ElementsOf(objects[id].children) \subseteq DOMAIN objects
          /\ IF objects[id].parentId = NoParent
             THEN Occurrences(rootObjects, id) = 1
             ELSE /\ Has(objects, objects[id].parentId)
                  /\ Occurrences(objects[objects[id].parentId].children, id) = 1
          /\ id \notin AncestorsFrom(id, {})

=============================================================================
